---- MODULE Spec2Model ----
(***************************************************************************)
(* Model of pysonos/discovery.py: the StoppableThread stop protocol, the   *)
(* probe loop _discover_thread, and the ways it is driven: the synchronous *)
(* discover(), by_name() on top of it, and a client of discover_thread()   *)
(* that supplies its own callback and calls stop() from outside.           *)
(*                                                                         *)
(* Time is time.monotonic() in units of half a second.  Every read of the  *)
(* clock reads `now`.  Time passes while the threads wait (select, join,   *)
(* a lock), run the callback or send datagrams; plain statements take no   *)
(* time.  A timed wait never returns early; it may return late, at the     *)
(* latest one tick after its deadline.                                     *)
(***************************************************************************)
EXTENDS Integers, FiniteSets, Sequences, TLC

\* ---------------------------------------------------------------- bounds
\* the clock stops here (ticks)
MaxTime == 4
\* discover(timeout) is called with 0..MaxTimeout ticks
MaxTimeout == 2
\* the interval a discover_thread() client passes (ticks)
ClientInterval == 1
\* local IPv4 addresses ifaddr reports
NumAddrs == 2
\* devices that may answer
NumDevices == 2
\* stop() calls of the discover_thread() client
MaxExtStops == 1

\* --------------------------------------------- program constants (ticks)
\* thread.join(timeout=1): one second
JoinPoll == 2
\* first_response + 1: the drain window, one second
Drain == 2
\* discover() starts the probe loop with interval 2 (seconds)
DiscoverInterval == 4
\* first_response = None
NoTime == -1
\* def discover(timeout=5, ...): by_name() calls discover() with the defaults
DefaultTimeout == 10

Addrs == 1..NumAddrs
Devices == 1..NumDevices
Threads == {"caller", "worker"}

\* ------------------------------------------------- device attributes
\* The device handles come from config.SOCO_CLASS(ip); discovery reads only
\* is_visible, all_zones and visible_zones.  Device d shares its zone group
\* with zone d+1; odd zones are visible.
is_visible(d) == d % 2 = 1
all_zones(d) == {d, d + 1}
visible_zones(d) == {z \in all_zones(d) : is_visible(z)}
\* player_name: zone 1 is the kitchen, the others are in the den
player_name(z) == IF z = 1 THEN "Kitchen" ELSE "Den"
Zones == 1..(NumDevices + 1)

VARIABLES
    mode,               \* "discover": discover(); "by_name": by_name();
                        \* "thread": discover_thread() client
    include_invisible,  \* argument
    interface_addr,     \* argument: "None", a dotted quad ("ok"), or "not-an-ip"
    timeout,            \* discover(timeout), in ticks
    interval,           \* resend interval, in ticks
    now,                \* time.monotonic()
    \* --- caller thread
    cpc,                \* caller's position
    start,              \* discover: start
    first_response,     \* discover: first_response (NoTime = None)
    found_zones,        \* discover: found_zones
    joinDeadline,       \* when the current thread.join(timeout) gives up
    result,             \* what the caller's call returned: None, a set, or the thread
    device,             \* by_name: the device returned (0: None)
    extStops,           \* completed external stop() calls ("thread" mode)
    \* --- StoppableThread
    stop_event,         \* _stop_event.is_set()
    lock,               \* holder of stop_lock: "none", "caller", "worker"
    stopPc,             \* per thread: position inside stop()
    \* --- worker thread (_discover_thread)
    wpc,                \* worker's position
    werr,               \* exception that escaped the thread function
    sockets,            \* _sockets: address -> "none" | "open" | "closed"
    createFailed,       \* addresses whose create_socket() call raised
    resend,             \* resend
    seen,               \* seen
    seenBound,          \* whether the local name `seen` is bound yet
    sent,               \* per socket: destinations reached in this iteration's send phase
    selDeadline,        \* when the current select() times out
    response,           \* readable sockets still to handle in this receive phase
    zone,               \* device being reported (0: none)
    absorbed,           \* the except clause of the receive loop has just run
    \* --- history
    stopRequested,      \* some stop() call has begun
    stopReturned,       \* some stop() call has returned
    cbCycle,            \* per device: callback invocations in this resend cycle
    cbTotal,            \* per device: callback invocations in the session
    qualCycles          \* per device: cycles with an accepted, reportable response

params == <<mode, include_invisible, interface_addr, timeout, interval>>
callerVars == <<cpc, start, joinDeadline, result, device, extStops>>
accVars == <<first_response, found_zones>>
stopVars == <<stop_event, lock, stopPc>>
workerVars ==
    <<wpc, werr, sockets, createFailed, resend, seen, seenBound, sent, selDeadline,
      response, zone, absorbed>>
histVars == <<stopRequested, stopReturned, cbCycle, cbTotal, qualCycles>>
vars == <<params, now, callerVars, accVars, stopVars, workerVars, histVars>>

Max0(x) == IF x > 0 THEN x ELSE 0
MinOf(S) == CHOOSE x \in S : \A y \in S : x <= y

NoResult == [kind |-> "pending", zones |-> {}]

\* devices for which the callback was invoked
fired == {d \in Devices : cbTotal[d] > 0}

\* threading.Thread.is_alive()
is_alive == wpc \notin {"unstarted", "done", "crashed"}

\* StoppableThread.stopped()
stopped == stop_event

\* The session runs discover(), called directly or by by_name().
Discovering == mode \in {"discover", "by_name"}

\* by_name() calls discover() with no arguments: timeout 5, visible zones
\* only, every interface.  The discover_thread() client leaves interface_addr
\* at its default as well.
Init ==
    /\ mode \in {"discover", "by_name", "thread"}
    /\ include_invisible \in IF mode = "by_name" THEN {FALSE} ELSE BOOLEAN
    /\ interface_addr \in IF mode = "discover" THEN {"None", "ok", "not-an-ip"}
                                               ELSE {"None"}
    /\ timeout \in CASE mode = "discover" -> 0..MaxTimeout
                     [] mode = "by_name" -> {DefaultTimeout}
                     [] OTHER -> {0}
    /\ interval \in IF Discovering THEN {DiscoverInterval} ELSE {ClientInterval}
    /\ now = 0
    /\ cpc = "call"
    /\ start = 0
    /\ first_response = NoTime
    /\ found_zones = {}
    /\ joinDeadline = 0
    /\ result = NoResult
    /\ device = 0
    /\ extStops = 0
    /\ stop_event = FALSE
    /\ lock = "none"
    /\ stopPc = [t \in Threads |-> "idle"]
    /\ wpc = "unstarted"
    /\ werr = "none"
    /\ sockets = [a \in Addrs |-> "none"]
    /\ createFailed = {}
    /\ resend = 0
    /\ seen = {}
    /\ seenBound = FALSE
    /\ sent = [a \in Addrs |-> {}]
    /\ selDeadline = 0
    /\ response = {}
    /\ zone = 0
    /\ absorbed = FALSE
    /\ stopRequested = FALSE
    /\ stopReturned = FALSE
    /\ cbCycle = [d \in Devices |-> 0]
    /\ cbTotal = [d \in Devices |-> 0]
    /\ qualCycles = [d \in Devices |-> 0]

\* ------------------------------------------------------------------ time
\* Positions where a thread waits or runs foreign code, so that time passes:
\* the caller in join(), in stop() waiting for the lock, or between calls; the
\* worker in select(), waiting for stop_lock, inside the callback, or in the
\* sendto() calls of a send phase that put datagrams on the wire.
CallerWaits ==
    cpc \in {"join1", "join2", "idle", "done", "bn_done"} \/ stopPc["caller"] = "acquire"
WorkerWaits ==
    \/ wpc \in {"select", "lock", "callback", "callback2", "cbstop", "done", "crashed"}
    \/ wpc = "select_call" /\ \E a \in Addrs : sent[a] # {}

\* The clock advances while the session is live, unless a join() or select()
\* whose deadline has already passed is still to return.
Tick ==
    /\ now < MaxTime
    /\ CallerWaits /\ WorkerWaits
    /\ is_alive \/ cpc \notin {"done", "bn_done", "idle"}
    /\ cpc \in {"join1", "join2"} => now <= joinDeadline
    /\ wpc = "select" => now <= selDeadline
    /\ now' = now + 1
    /\ UNCHANGED <<params, callerVars, accVars, stopVars, workerVars, histVars>>

\* -------------------------------------------------- StoppableThread.stop
\* A thread t enters stop(): it now waits for stop_lock.
EnterStop(t) ==
    /\ stopPc' = [stopPc EXCEPT ![t] = "acquire"]
    /\ stopRequested' = TRUE

\* Mutant: the lock excludes nobody.
LockFreeAlways == TRUE

\* threading.Lock.acquire() succeeds only while nobody holds the lock
LockFree == lock = "none"

\* stop(): `with self.stop_lock:` -- threading.Lock is not reentrant, so the
\* lock must be free whoever asks for it.
StopAcquire(t) ==
    /\ stopPc[t] = "acquire"
    /\ LockFree
    /\ lock' = t
    /\ stopPc' = [stopPc EXCEPT ![t] = "set"]
    /\ UNCHANGED <<params, now, callerVars, accVars, stop_event, workerVars, histVars>>

\* Mutant: the for loop over the readable sockets ends after one socket.
NextRecvAbort(resp) == "loop"

\* Where the worker continues after one readable socket: the next socket of
\* the for loop, or the loop test when none is left.
NextRecv(resp) == IF resp = {} THEN "loop" ELSE "recv"

\* stop(): self._stop_event.set(), leave the with block, return.
StopSet(t) ==
    /\ stopPc[t] = "set"
    /\ stop_event' = TRUE
    /\ lock' = "none"
    /\ stopPc' = [stopPc EXCEPT ![t] = "idle"]
    /\ stopReturned' = TRUE
    /\ IF t = "caller"
       THEN /\ cpc' = IF Discovering THEN "while" ELSE "idle"
            /\ extStops' = IF Discovering THEN extStops ELSE extStops + 1
            /\ UNCHANGED workerVars
       ELSE /\ wpc' = NextRecv(response)
            /\ zone' = 0
            /\ UNCHANGED <<cpc, extStops, werr, sockets, createFailed, resend, seen,
                           seenBound, sent, selDeadline, response, absorbed>>
    /\ UNCHANGED <<params, now, start, joinDeadline, result, device, accVars,
                   stopRequested, cbCycle, cbTotal, qualCycles>>

\* ------------------------------------------------------------ discover()
\* found_zones = set(); first_response = None; start = time.monotonic();
\* thread = discover_thread(..., 2, ..., start=False); thread.start()
DiscoverStart ==
    /\ Discovering
    /\ cpc = "call"
    /\ found_zones' = {}
    /\ first_response' = NoTime
    /\ start' = now
    /\ wpc' = "setup"
    /\ cpc' = "while"
    /\ UNCHANGED <<params, now, joinDeadline, result, device, extStops, stopVars, werr,
                   sockets, createFailed, resend, seen, seenBound, sent, selDeadline, response,
                   zone, absorbed, histVars>>

\* Mutant: the loop also ends as soon as a response has been seen.
LoopContinuesUntilResponse == is_alive /\ ~stopped /\ first_response = NoTime

\* while thread.is_alive() and not thread.stopped():
LoopContinues == is_alive /\ ~stopped

\* Mutant: the drain window forgets the extra second.
DrainWaitNoGrace == Max0(first_response - now)

\* first_response + 1 - time.monotonic(); join treats a negative timeout as 0
DrainWait == Max0(first_response + Drain - now)

\* The loop test, the branch on first_response and the start of the join.
DiscoverLoop ==
    /\ cpc = "while"
    /\ IF LoopContinues
       THEN IF first_response = NoTime
            THEN /\ cpc' = "join1"
                 /\ joinDeadline' = now + JoinPoll
            ELSE /\ cpc' = "join2"
                 /\ joinDeadline' = now + DrainWait
       ELSE /\ cpc' = "return"
            /\ UNCHANGED joinDeadline
    /\ UNCHANGED <<params, now, start, result, device, extStops, accVars, stopVars,
                   workerVars, histVars>>

\* thread.join(timeout) returns when the thread has ended or the timeout ran out
JoinReturns == ~is_alive \/ now >= joinDeadline

\* Mutant: the timeout test is not strict.
TimedOutAtDeadline == now >= start + timeout

\* if time.monotonic() > start + timeout:
TimedOut == now > start + timeout

\* thread.join(timeout=1); if time.monotonic() > start + timeout: thread.stop()
DiscoverJoin1 ==
    /\ cpc = "join1"
    /\ JoinReturns
    /\ IF TimedOut
       THEN /\ cpc' = "stop240"
            /\ EnterStop("caller")
       ELSE /\ cpc' = "while"
            /\ UNCHANGED <<stopPc, stopRequested>>
    /\ joinDeadline' = 0
    /\ UNCHANGED <<params, now, start, result, device, extStops, accVars,
                   stop_event, lock, workerVars, stopReturned, cbCycle,
                   cbTotal, qualCycles>>

\* thread.join(timeout=first_response + 1 - time.monotonic()); thread.stop()
DiscoverJoin2 ==
    /\ cpc = "join2"
    /\ JoinReturns
    /\ cpc' = "stop243"
    /\ EnterStop("caller")
    /\ joinDeadline' = 0
    /\ UNCHANGED <<params, now, start, result, device, extStops, accVars,
                   stop_event, lock, workerVars, stopReturned, cbCycle,
                   cbTotal, qualCycles>>

\* Mutant: the set is returned as it is, empty or not.
FoundAsIs(fz) == [kind |-> "set", zones |-> fz]

\* found_zones or None
FoundOrNone(fz) ==
    IF fz = {} THEN [kind |-> "None", zones |-> {}] ELSE [kind |-> "set", zones |-> fz]

\* return found_zones or None
DiscoverReturn ==
    /\ cpc = "return"
    /\ result' = FoundOrNone(found_zones)
    /\ cpc' = IF mode = "by_name" THEN "scan" ELSE "done"
    /\ UNCHANGED <<params, now, start, joinDeadline, device, extStops, accVars,
                   stopVars, workerVars, histVars>>

\* --------------------------------------------------------------- by_name()
\* The names by_name() may be asked for; nobody is called "Attic".
Names == {"Kitchen", "Den", "Attic"}

\* `devices or []`: what the for loop iterates over
DevicesOrEmpty(res) == IF res.kind = "set" THEN res.zones ELSE {}

\* Mutant: the comparison accepts every device.
MatchingAny(devs, name) == devs

\* the devices with device.player_name == name
Matching(devs, name) == {z \in devs : player_name(z) = name}

\* The for loop over the discovered set, in the set's iteration order: the
\* first device with the name is returned, None when the loop finds none.
ByNameScan(name) ==
    /\ cpc = "scan"
    /\ IF Matching(DevicesOrEmpty(result), name) = {}
       THEN device' = 0
       ELSE device' \in Matching(DevicesOrEmpty(result), name)
    /\ cpc' = "bn_done"
    /\ UNCHANGED <<params, now, start, joinDeadline, result, extStops, accVars,
                   stopVars, workerVars, histVars>>

ByName == \E name \in Names : ByNameScan(name)

\* ------------------------------------------- a client of discover_thread()
\* thread = StoppableThread(target=_discover_thread, ...); thread.start()
ThreadStart ==
    /\ mode = "thread"
    /\ cpc = "call"
    /\ wpc' = "setup"
    /\ cpc' = "idle"
    /\ result' = [kind |-> "thread", zones |-> {}]
    /\ UNCHANGED <<params, now, start, joinDeadline, device, extStops, accVars,
                   stopVars, werr, sockets, createFailed, resend, seen, seenBound, sent,
                   selDeadline, response, zone, absorbed, histVars>>

\* The client calls thread.stop() at any moment, and again after it returned.
ExtStop ==
    /\ mode = "thread"
    /\ cpc = "idle"
    /\ extStops < MaxExtStops
    /\ cpc' = "extstop"
    /\ EnterStop("caller")
    /\ UNCHANGED <<params, now, start, joinDeadline, result, device, extStops, accVars,
                   stop_event, lock, workerVars, stopReturned, cbCycle,
                   cbTotal, qualCycles>>

\* ------------------------------------------------------ _discover_thread
OpenSocks == {a \in Addrs : sockets[a] = "open"}

\* The thread function ends because an exception escaped it.
Crash(ex) ==
    /\ wpc' = "crashed"
    /\ werr' = ex

\* _sockets after the setup: one socket for the explicit interface (address
\* 1), or one for each address ifaddr reports whose create_socket() call
\* succeeded.
Pool(ia, created) ==
    [a \in Addrs |-> IF a \in created /\ (ia = "None" \/ a = 1) THEN "open" ELSE "none"]

\* _sockets = {} ... resend = time.monotonic()
\* ia is the interface_addr argument: "None", a dotted quad ("ok") or a string
\* inet_aton rejects ("not-an-ip"); created are the addresses whose
\* create_socket() call succeeds.
Setup(ia, created) ==
    IF ia = "not-an-ip"
    THEN /\ Crash("ValueError")
         /\ UNCHANGED <<sockets, createFailed, resend>>
    ELSE IF ia = "ok" /\ 1 \notin created
    THEN /\ Crash("socket.error")
         /\ createFailed' = {1}
         /\ UNCHANGED <<sockets, resend>>
    ELSE /\ sockets' = Pool(ia, created)
         /\ createFailed' = IF ia = "None" THEN Addrs \ created ELSE {}
         /\ resend' = now
         /\ wpc' = "loop"
         /\ UNCHANGED werr

W_Setup ==
    /\ wpc = "setup"
    /\ \E created \in SUBSET Addrs : Setup(interface_addr, created)
    /\ UNCHANGED <<params, now, callerVars, accVars, stopVars, seen, seenBound,
                   sent, selDeadline, response, zone, absorbed, histVars>>

\* while not threading.current_thread().stopped(): the flag is set, the loop ends
W_LoopExit ==
    /\ wpc = "loop"
    /\ stopped
    /\ wpc' = "close"
    /\ absorbed' = FALSE
    /\ UNCHANGED <<params, now, callerVars, accVars, stopVars, werr, sockets,
                   createFailed, resend, seen, seenBound, sent, selDeadline, response,
                   zone, histVars>>

\* if resend < time.monotonic():
ResendDue == resend < now

\* Mutant: the seen set survives the send phase.
SeenKept == seen

\* seen = set()
SeenAfterSend == {}

\* Which sendto() of a socket raises OSError: none, the one to the multicast
\* group, or the one to the broadcast address.
SendErrs == {"none", "mcast", "bcast"}

\* Mutant: only the multicast datagram is sent.
SendMulticastOnly(e) == IF e = "mcast" THEN {} ELSE {"mcast"}

\* try: sendto(.., (MCAST_GRP, MCAST_PORT)); sendto(.., (BCAST_ADDR, MCAST_PORT))
\* except OSError: the destinations the datagram went out to
SendPair(e) ==
    CASE e = "none" -> {"mcast", "bcast"}
      [] e = "mcast" -> {}
      [] OTHER -> {"mcast"}

\* Mutant: an OSError ends the whole for loop over the sockets.
DeliveredUntilFailure(err, a) ==
    IF \E b \in DOMAIN err : b < a /\ err[b] # "none" THEN {} ELSE SendPair(err[a])

\* for _addr, _sock in _sockets.items(): what socket a sends when the
\* sendto() calls fail as err says
Delivered(err, a) == SendPair(err[a])

\* The loop test finds the flag clear and resend is due.
\* The send phase: two sendto() calls per socket, an OSError ends the pair of
\* that socket only; then the next deadline and a fresh seen set.
SendPhase(err) ==
    /\ wpc = "loop"
    /\ ~stopped
    /\ ResendDue
    /\ sent' = [a \in Addrs |-> IF a \in OpenSocks THEN Delivered(err, a) ELSE {}]
    /\ resend' = now + interval
    /\ seen' = SeenAfterSend
    /\ seenBound' = TRUE
    /\ cbCycle' = [d \in Devices |-> 0]
    /\ wpc' = "select_call"
    /\ absorbed' = FALSE
    /\ UNCHANGED <<params, now, callerVars, accVars, stopVars, werr, sockets,
                   createFailed, selDeadline, response, zone, stopRequested,
                   stopReturned, cbTotal, qualCycles>>

W_SendPhase == \E err \in [OpenSocks -> SendErrs] : SendPhase(err)

\* The loop test finds the flag clear and resend is not due yet.
W_SkipSend ==
    /\ wpc = "loop"
    /\ ~stopped
    /\ ~ResendDue
    /\ wpc' = "select_call"
    /\ absorbed' = FALSE
    /\ UNCHANGED <<params, now, callerVars, accVars, stopVars, werr, sockets,
                   createFailed, resend, seen, seenBound, sent, selDeadline, response,
                   zone, histVars>>

\* wait_time = resend - time.monotonic()
WaitTime == resend - now

\* Mutant: the wait time is passed on as it is.
SelectTimeoutUnclamped == WaitTime

\* max(0, wait_time)
SelectTimeout == Max0(WaitTime)

\* select.select(list(_sockets.values()), [], [], max(0, wait_time)) is entered
W_SelectCall ==
    /\ wpc = "select_call"
    /\ selDeadline' = now + SelectTimeout
    /\ sent' = [a \in Addrs |-> {}]
    /\ wpc' = "select"
    /\ UNCHANGED <<params, now, callerVars, accVars, stopVars, werr, sockets, createFailed,
                   resend, seen, seenBound, response, zone, absorbed, histVars>>

\* select returns the readable sockets, or nothing once the timeout ran out
W_SelectReturn ==
    /\ wpc = "select"
    /\ \E r \in SUBSET OpenSocks :
          /\ r # {} \/ now >= selDeadline
          /\ response' = r
          /\ wpc' = NextRecv(r)
    /\ selDeadline' = 0
    /\ UNCHANGED <<params, now, callerVars, accVars, stopVars, werr, sockets, createFailed,
                   resend, seen, seenBound, sent, zone, absorbed, histVars>>

\* select raises (a descriptor out of range, an invalid argument): nothing in
\* the thread function catches it
W_SelectRaise ==
    /\ wpc = "select"
    /\ Crash("OSError")
    /\ UNCHANGED <<params, now, callerVars, accVars, stopVars, sockets, createFailed, resend,
                   seen, seenBound, sent, selDeadline, response, zone, absorbed, histVars>>

\* Mutant: every device is reported.
ReportableAlways(d) == TRUE

\* if include_invisible or zone.is_visible:
Reportable(d) == include_invisible \/ is_visible(d)

\* ---- what a readable socket delivers
\* b"Sonos", the marker a response must contain, as a sequence of bytes
Marker == <<"S", "o", "n", "o", "s">>

\* Payloads without the marker: nothing, the marker in lower case, the marker
\* cut short.
NoMarkerPayloads ==
    { <<>>, <<"s", "o", "n", "o", "s">>, <<"S", "o", "n", "o">> }

\* Payloads with the marker: alone, and between other bytes.
MarkerPayloads == { Marker, <<"x">> \o Marker \o <<"y">> }

Payloads == NoMarkerPayloads \cup MarkerPayloads

\* The payloads the sockets deliver: one of each kind.
Received == { <<"S", "o", "n", "o">>, <<"x">> \o Marker \o <<"y">> }

\* Mutant: the first four bytes of the marker are enough.
ContainsPrefix(data, sub) ==
    \E i \in 1..Len(data) : i + 3 <= Len(data) /\ SubSeq(data, i, i + 3) = SubSeq(sub, 1, 4)

\* `sub in data` on bytes: sub occurs in data as a contiguous run
Contains(data, sub) ==
    \E i \in 1..(Len(data) + 1) :
        /\ i + Len(sub) - 1 <= Len(data)
        /\ SubSeq(data, i, i + Len(sub) - 1) = sub

\* What goes wrong while one response is handled: nothing, recvfrom() raises,
\* or config.SOCO_CLASS() raises.
Faults == {"none", "recvfrom", "factory"}

\* config.SOCO_CLASS(addr[0]): the handle of the device at the source address
SOCO_CLASS(ip) == ip

\* One readable socket whose datagram leads nowhere: recvfrom raises, the
\* payload lacks b"Sonos", or config.SOCO_CLASS raises.  The except clause
\* absorbs the exception and the for loop goes on with the next socket.
RecvDiscard(fault, data) ==
    /\ wpc = "recv"
    /\ \/ fault = "recvfrom"
       \/ fault = "none" /\ ~Contains(data, Marker)
       \/ fault = "factory" /\ Contains(data, Marker)
    /\ response' = response \ {MinOf(response)}
    /\ wpc' = NextRecv(response')
    /\ absorbed' = (fault # "none")
    /\ UNCHANGED <<params, now, callerVars, accVars, stopVars, werr, sockets,
                   createFailed, resend, seen, seenBound, sent, selDeadline, zone,
                   histVars>>

\* When recvfrom() raises there is no payload.
W_RecvDiscard ==
    \E fault \in Faults : \E data \in IF fault = "recvfrom" THEN {<<>>} ELSE Received :
        RecvDiscard(fault, data)

\* One readable socket with a Sonos datagram from source address ip: the
\* factory call, the seen test, seen.add(zone), and the visibility test.  An
\* unbound `seen` raises NameError, which the loop's except clause absorbs.
RecvDevice(data, ip) ==
    /\ wpc = "recv"
    /\ Contains(data, Marker)
    /\ response' = response \ {MinOf(response)}
    /\ absorbed' = ~seenBound
    /\ IF ~seenBound \/ SOCO_CLASS(ip) \in seen
       THEN /\ wpc' = NextRecv(response')
            /\ UNCHANGED <<seen, zone, qualCycles>>
       ELSE /\ seen' = seen \cup {SOCO_CLASS(ip)}
            /\ IF Reportable(SOCO_CLASS(ip))
               THEN /\ wpc' = "lock"
                    /\ zone' = SOCO_CLASS(ip)
                    /\ qualCycles' = [qualCycles EXCEPT ![SOCO_CLASS(ip)] = @ + 1]
               ELSE /\ wpc' = NextRecv(response')
                    /\ UNCHANGED <<zone, qualCycles>>
    /\ UNCHANGED <<params, now, callerVars, accVars, stopVars, werr, sockets,
                   createFailed, resend, seenBound, sent, selDeadline,
                   stopRequested, stopReturned, cbCycle, cbTotal>>

W_RecvDevice == \E data \in Received : \E ip \in Devices : RecvDevice(data, ip)

\* with threading.current_thread().stop_lock:
W_LockAcquire ==
    /\ wpc = "lock"
    /\ LockFree
    /\ lock' = "worker"
    /\ wpc' = "check"
    /\ UNCHANGED <<params, now, callerVars, accVars, stop_event, stopPc, werr,
                   sockets, createFailed, resend, seen, seenBound, sent, selDeadline, response,
                   zone, absorbed, histVars>>

\* Mutant: the stop flag is not tested again under the lock.
CallbackAlways == TRUE

\* if not threading.current_thread().stopped():
CallbackAllowed == ~stopped

\* The stop test under the lock; the callback is invoked or skipped.
W_CheckStopped ==
    /\ wpc = "check"
    /\ IF CallbackAllowed
       THEN /\ wpc' = "callback"
            /\ cbCycle' = [cbCycle EXCEPT ![zone] = @ + 1]
            /\ cbTotal' = [cbTotal EXCEPT ![zone] = @ + 1]
            /\ UNCHANGED <<lock, zone>>
       ELSE /\ wpc' = NextRecv(response)
            /\ lock' = "none"
            /\ zone' = 0
            /\ UNCHANGED <<cbCycle, cbTotal>>
    /\ UNCHANGED <<params, now, callerVars, accVars, stop_event, stopPc, werr,
                   sockets, createFailed, resend, seen, seenBound, sent, selDeadline,
                   response, absorbed, stopRequested, stopReturned, qualCycles>>

\* if first_response is None: first_response = time.monotonic()
FirstResponse == IF first_response = NoTime THEN now ELSE first_response

\* callback(zone).  discover()'s callback stamps first_response; a client's
\* callback returns, raises, or calls thread.stop() itself.  The with block
\* releases stop_lock when the callback returns and when it raises.
Callback(outcome) ==
    /\ wpc = "callback"
    /\ IF Discovering
       THEN /\ outcome = "return"
            /\ first_response' = FirstResponse
            /\ wpc' = "callback2"
            /\ UNCHANGED <<lock, stopPc, stopRequested, zone, absorbed>>
       ELSE /\ UNCHANGED first_response
            /\ IF outcome = "stop"
               THEN /\ wpc' = "cbstop"
                    /\ EnterStop("worker")
                    /\ UNCHANGED <<lock, zone, absorbed>>
               ELSE /\ wpc' = NextRecv(response)
                    /\ lock' = "none"
                    /\ zone' = 0
                    /\ absorbed' = (outcome = "raise")
                    /\ UNCHANGED <<stopPc, stopRequested>>
    /\ UNCHANGED <<params, now, callerVars, found_zones, stop_event, werr,
                   sockets, createFailed, resend, seen, seenBound, sent, selDeadline, response,
                   stopReturned, cbCycle, cbTotal, qualCycles>>

W_Callback == \E outcome \in {"return", "raise", "stop"} : Callback(outcome)

\* found_zones.update(zone.all_zones) / found_zones.update(zone.visible_zones)
Expand(d) == IF include_invisible THEN all_zones(d) ELSE visible_zones(d)

\* The rest of discover()'s callback, and the end of the with block.
W_Callback2 ==
    /\ wpc = "callback2"
    /\ found_zones' = found_zones \cup Expand(zone)
    /\ lock' = "none"
    /\ zone' = 0
    /\ wpc' = NextRecv(response)
    /\ UNCHANGED <<params, now, callerVars, first_response, stop_event, stopPc,
                   werr, sockets, createFailed, resend, seen, seenBound, sent,
                   selDeadline, response, absorbed, histVars>>

\* for _sock in _sockets.values(): _sock.close()
\* Mutant: only the first socket of the pool is closed.
ClosedFirstOnly ==
    [a \in Addrs |-> IF sockets[a] = "open" /\ a = 1 THEN "closed" ELSE sockets[a]]

\* every socket of the pool closed
ClosedAll ==
    [a \in Addrs |-> IF sockets[a] = "open" THEN "closed" ELSE sockets[a]]

W_Close ==
    /\ wpc = "close"
    /\ sockets' = ClosedAll
    /\ wpc' = "done"
    /\ UNCHANGED <<params, now, callerVars, accVars, stopVars, werr, createFailed,
                   resend, seen, seenBound, sent, selDeadline, response, zone, absorbed,
                   histVars>>

\* ------------------------------------------------------- specification
Next ==
    \/ Tick
    \/ DiscoverStart
    \/ DiscoverLoop
    \/ DiscoverJoin1
    \/ DiscoverJoin2
    \/ DiscoverReturn
    \/ ByName
    \/ ThreadStart
    \/ ExtStop
    \/ \E t \in Threads : StopAcquire(t)
    \/ \E t \in Threads : StopSet(t)
    \/ W_Setup
    \/ W_LoopExit
    \/ W_SendPhase
    \/ W_SkipSend
    \/ W_SelectCall
    \/ W_SelectReturn
    \/ W_SelectRaise
    \/ W_RecvDiscard
    \/ W_RecvDevice
    \/ W_LockAcquire
    \/ W_CheckStopped
    \/ W_Callback
    \/ W_Callback2
    \/ W_Close

Spec == Init /\ [][Next]_vars

\* The steps of the discover() caller and of the worker thread.
CallerNext ==
    \/ DiscoverStart \/ DiscoverLoop \/ DiscoverJoin1 \/ DiscoverJoin2
    \/ DiscoverReturn \/ ByName

WorkerNext ==
    \/ W_Setup \/ W_LoopExit \/ W_SendPhase \/ W_SkipSend \/ W_SelectCall
    \/ W_SelectReturn \/ W_SelectRaise \/ W_RecvDiscard \/ W_RecvDevice
    \/ W_LockAcquire \/ W_CheckStopped \/ W_Callback \/ W_Callback2 \/ W_Close

\* Both threads are scheduled: a thread that can take a step takes one, a
\* callback that was entered returns, and a thread waiting for stop_lock gets
\* it if the lock keeps becoming free.
FairSpec ==
    /\ Spec
    /\ WF_vars(CallerNext)
    /\ WF_vars(WorkerNext)
    /\ \A t \in Threads : SF_vars(StopAcquire(t)) /\ WF_vars(StopSet(t))

\* The worker is scheduled and a stop() call that holds stop_lock finishes:
\* enough for the worker to get through its loop.
WorkerFairSpec ==
    Spec /\ WF_vars(WorkerNext \/ \E t \in Threads : StopSet(t))

\* ================================================================ claims

\* The worker is inside `with stop_lock:` (lines 167-169).
InLockSection == wpc \in {"check", "callback", "callback2", "cbstop"}

\* C1: no callback invocation begins once a stop() call has returned; while the
\* worker is inside the stop_lock section it holds the lock and the stop flag
\* does not change, so a callback that got in first runs to completion before
\* stop() sets the flag; a response handled after stop() returned is skipped.
C1_NoCallbackAfterStop ==
    /\ [][stopReturned => cbTotal' = cbTotal]_vars
    /\ [](InLockSection => lock = "worker")
    /\ [][InLockSection => stop_event' = stop_event]_vars

\* A response was in flight when stop() returned: the worker now holds the
\* lock for it and is about to test the flag.
C1_Witness == stopReturned /\ wpc = "check" /\ zone # 0

\* C2 as stated: when discover() returns, the worker is dead and its sockets
\* are closed.
C2_WorkerTerminatedAtReturn ==
    cpc = "done" /\ Discovering => ~is_alive /\ OpenSocks = {}

\* C2 amended: discover() leaves its loop and returns only once stop() has
\* returned on the worker or the worker has ended; the worker may still be
\* alive, with its sockets open, at that moment.
C2_ReturnsAfterStopOrDeath ==
    cpc \in {"return", "done"} => (stopped /\ stopReturned) \/ ~is_alive

\* discover() has returned while its worker is alive and holds open sockets.
C2_Witness == cpc = "done" /\ is_alive /\ OpenSocks # {} /\ stopped

\* C3: when the probe loop invocation has ended, on any path, none of its
\* sockets is open.
C3_SocketsClosedOnEveryExit ==
    wpc \in {"done", "crashed"} => OpenSocks = {}

\* C4: an invalid explicit interface address, or one whose socket cannot be
\* created, reaches the caller of discover / discover_thread as ValueError.
C4_ConfigErrorSurfaced ==
    werr \in {"ValueError", "socket.error"} /\ result.kind # "pending"
        => result.kind = "ValueError"

\* 1 while the worker has accepted device d for reporting and has not yet
\* reached the stop test under the lock.
InFlight(d) == IF wpc \in {"lock", "check"} /\ zone = d THEN 1 ELSE 0

\* C5: while stop has not been requested, a device is reported at most once in
\* a resend cycle, and exactly once if a response of it was accepted in the
\* cycle (it is in the seen set and reportable); over the session it is
\* reported once for every cycle in which it was accepted.
C5_OncePerCycle ==
    \A d \in Devices :
        /\ cbCycle[d] <= 1
        /\ ~stopRequested =>
              /\ cbCycle[d] + InFlight(d) = (IF d \in seen /\ Reportable(d) THEN 1 ELSE 0)
              /\ cbTotal[d] + InFlight(d) = qualCycles[d]

\* The same device has been reported in two cycles, once in each.
C5_Witness ==
    \E d \in Devices : cbTotal[d] = 2 /\ cbCycle[d] = 1 /\ ~stopRequested

\* The zones the session's callbacks contributed.
ExpectedZones ==
    UNION {IF include_invisible THEN all_zones(d) ELSE visible_zones(d) : d \in fired}

\* C6: discover() returns the union of all_zones (include_invisible) or
\* visible_zones of the devices its callback fired for, None when that union
\* is empty, and never raises.
C6_ReturnsUnionOrNone ==
    cpc = "done" =>
        /\ result.zones = ExpectedZones
        /\ result.kind = IF ExpectedZones = {} THEN "None" ELSE "set"

\* discover() returned a set after its callback fired for two devices.
C6_Witness == cpc = "done" /\ result.kind = "set" /\ Cardinality(fired) = 2

\* C7: discover() returns no later than timeout after it was called.
C7_ReturnsWithinTimeout ==
    cpc = "return" => now <= start + timeout

\* The caller requests stop in this step.
StopRequestedNow == Discovering /\ ~stopRequested /\ stopRequested'

\* C8: while no callback has fired, stop is requested only after timeout has
\* elapsed, and a liveness poll (a join of at most one second) that ends after
\* timeout has elapsed requests it.
C8_StopAtTimeout ==
    /\ [][StopRequestedNow /\ first_response = NoTime => now > start + timeout]_vars
    /\ [](cpc = "join1" => joinDeadline <= now + JoinPoll)
    /\ [][cpc = "join1" /\ cpc' # "join1" /\ now > start + timeout
            => cpc' = "stop240" /\ stopRequested']_vars

\* No callback has fired, the worker is alive, timeout has elapsed and the
\* caller has asked for the stop.
C8_Witness ==
    /\ cpc = "stop240" /\ is_alive /\ first_response = NoTime
    /\ fired = {} /\ now > start + timeout

\* C9 as stated: once a callback has fired, stop is not requested earlier
\* than one second after the first callback's timestamp.
C9_StopOneSecondAfterFirst ==
    [][StopRequestedNow /\ first_response # NoTime => now >= first_response + Drain]_vars

\* C9 amended: once a callback has fired and while the worker is alive, stop
\* is requested no earlier than one second after the first callback's
\* timestamp, unless the liveness poll during which that callback fired ends
\* after timeout has elapsed (then stop is requested at once); and the drain
\* wait always ends with the stop request.
C9_DrainOrTimeout ==
    /\ [][StopRequestedNow /\ first_response # NoTime =>
            \/ now >= first_response + Drain
            \/ cpc = "join1" /\ now > start + timeout
            \/ ~is_alive]_vars
    /\ [][cpc = "join2" /\ cpc' # "join2" => cpc' = "stop243" /\ stopRequested']_vars

\* The drain window ran its course: stop is requested from the drain branch,
\* a second after the first response, with the worker alive.
C9_Witness ==
    /\ cpc = "stop243" /\ stopPc["caller"] = "acquire" /\ is_alive
    /\ first_response # NoTime /\ now = first_response + Drain

\* C10: every stop() call, from whichever thread, returns, and stopped() is
\* true from then on.
C10_StopAlwaysReturns ==
    \A t \in Threads : (stopPc[t] = "acquire") ~> (stopPc[t] = "idle" /\ stopped)

\* The addresses for which the pool holds a socket.
Pooled == {a \in Addrs : sockets[a] # "none"}

\* C11: with interface_addr None the setup never aborts; the pool holds one
\* socket for every address whose create_socket() call succeeded, so all
\* NumAddrs of them when none failed; and a send phase in which no sendto()
\* raises sends the multicast and the broadcast datagram on every pooled
\* socket and nothing elsewhere.
C11_PoolAndDatagrams ==
    /\ [][wpc = "setup" /\ interface_addr = "None" => wpc' \in {"setup", "loop"}]_vars
    /\ [](interface_addr = "None" /\ wpc \notin {"unstarted", "setup"} =>
            /\ Pooled = Addrs \ createFailed
            /\ createFailed = {} => Cardinality(Pooled) = NumAddrs)
    /\ [][wpc = "loop" /\ SendPhase([a \in OpenSocks |-> "none"]) =>
            \A a \in Addrs :
                sent'[a] = IF a \in Pooled THEN {"mcast", "bcast"} ELSE {}]_vars

\* Every address got its socket and the send phase put two datagrams on each.
C11_Witness ==
    /\ interface_addr = "None" /\ createFailed = {} /\ wpc = "select_call"
    /\ \A a \in Addrs : sockets[a] = "open" /\ sent[a] = {"mcast", "bcast"}

\* C12: by_name(name) runs one discovery; it returns a device of the
\* discovered set whose player_name is name when there is one, and None when
\* the set has none or discover() returned None.
C12_ByNameReturnsMatch ==
    /\ [][wpc' = "setup" => wpc \in {"unstarted", "setup"}]_vars
    /\ [](cpc \in {"scan", "bn_done"} => result.kind \in {"None", "set"})
    /\ [][cpc = "scan" => \A name \in Names : ByNameScan(name) =>
            IF result.kind = "set" /\ \E z \in result.zones : player_name(z) = name
            THEN device' \in result.zones /\ player_name(device') = name
            ELSE device' = 0]_vars

\* by_name() returned a device.
C12_Witness == cpc = "bn_done" /\ device # 0 /\ device \in result.zones

\* C13: an iteration that starts with the clock at or past resend runs the
\* send phase (new deadline, fresh seen set) before its receive phase.
C13_SendWhenDue ==
    [][wpc = "loop" /\ wpc' = "select_call" /\ now >= resend =>
          resend' = now + interval /\ seen' = {} /\ seenBound']_vars

\* C14: once the stop flag is set the worker starts no new iteration: at the
\* loop test it goes to close the sockets; it ends with every socket closed,
\* unless select() raised.
C14_StopEndsLoop ==
    /\ (stopped /\ is_alive) ~> (wpc = "crashed" \/ (wpc = "done" /\ OpenSocks = {}))
    /\ [][stopped /\ wpc = "loop" /\ wpc' # "loop" => wpc' = "close"]_vars
    /\ [][stopped /\ wpc' = "select_call" => wpc = "select_call"]_vars
    /\ [](wpc = "done" => OpenSocks = {})

\* The worker ended after stop(): the flag is set and its sockets are closed.
C14_Witness ==
    wpc = "done" /\ stopped /\ \E a \in Addrs : sockets[a] = "closed"

\* C15: a response accepted into the seen set goes on to the callback exactly
\* when include_invisible is set or the device is visible; with no stop
\* requested the stop test lets the callback run, once in the cycle; a device
\* that is not reportable is in the seen set without a callback.
C15_ReportIffVisible ==
    /\ [][\A d \in Devices : d \notin seen /\ d \in seen' =>
            ((wpc' = "lock" /\ zone' = d) <=> (include_invisible \/ is_visible(d)))]_vars
    /\ [][wpc = "check" /\ wpc' # "check" /\ ~stopRequested =>
            wpc' = "callback" /\ cbCycle'[zone] = 1]_vars
    /\ [](\A d \in Devices :
            cbCycle[d] > 0 \/ InFlight(d) = 1 => include_invisible \/ is_visible(d))

\* An invisible device answered and sits in the seen set unreported, while a
\* visible one was reported.
C15_Witness ==
    /\ ~include_invisible
    /\ \E d \in seen : ~is_visible(d) /\ cbTotal[d] = 0
    /\ \E e \in seen : cbCycle[e] = 1

\* C16: handling a datagram without the marker changes nothing but the list
\* of sockets still to handle: no factory call (so no factory failure), seen
\* set and reported device unchanged, no callback, nothing caught or raised;
\* a datagram with the marker is not discarded for its payload, and the
\* handle of its source address enters the seen set.
C16_MarkerGate ==
    [][wpc = "recv" =>
        /\ \/ /\ seen' = seen /\ zone' = zone /\ ~absorbed'
              /\ cbTotal' = cbTotal /\ qualCycles' = qualCycles
              /\ werr' = werr /\ wpc' \in {"recv", "loop"}
           \/ \A data \in NoMarkerPayloads :
                 /\ ~RecvDiscard("none", data)
                 /\ \A ip \in Devices : ~RecvDevice(data, ip)
        /\ \A data \in NoMarkerPayloads : ~RecvDiscard("factory", data)
        /\ \A data \in MarkerPayloads : ~RecvDiscard("none", data)
        /\ \A ip \in Devices :
              seenBound /\ ip \notin seen' =>
                  \A data \in MarkerPayloads : ~RecvDevice(data, ip)]_vars

\* A datagram with the marker was accepted: the device of its source address
\* is in the seen set and on its way to the callback.
C16_Witness == wpc = "lock" /\ zone \in seen

\* C17: whatever is raised while a response is handled, the thread function
\* goes on: it dies only in the setup or in select(); after the except clause
\* ran the worker is at the next socket or back at the loop test, without
\* stop_lock; and the receive phase ends only when no readable socket is left.
C17_ErrorsAbsorbed ==
    /\ [][wpc' = "crashed" => wpc \in {"setup", "select", "crashed"}]_vars
    /\ [](absorbed => /\ wpc \in {"recv", "loop"}
                      /\ lock # "worker"
                      /\ werr = "none")
    /\ [][/\ wpc \in {"recv", "callback"}
          /\ \/ Callback("raise")
             \/ \E data \in Payloads : RecvDiscard("recvfrom", data)
             \/ \E data \in Payloads : RecvDiscard("factory", data)
          => absorbed']_vars
    /\ [](wpc \in {"loop", "select_call", "select", "close", "done"} => response = {})

\* An exception was caught and another readable socket is about to be handled.
C17_Witness == absorbed /\ wpc = "recv" /\ response # {} /\ lock = "none"

\* C18: whichever sendto() calls raise OSError, the send phase completes:
\* every socket whose calls did not raise sends both datagrams, the next
\* deadline is set and the seen set is fresh.
C18_SendFailureIsolated ==
    [][wpc = "loop" => \A err \in [OpenSocks -> SendErrs] : SendPhase(err) =>
          /\ \A a \in OpenSocks : err[a] = "none" => sent'[a] = {"mcast", "bcast"}
          /\ resend' = now + interval
          /\ seen' = {} /\ seenBound'
          /\ wpc' = "select_call" /\ werr' = werr]_vars

\* The first socket failed to send and a later one sent both datagrams.
C18_Witness ==
    /\ wpc = "select_call"
    /\ \E a \in OpenSocks : \E b \in OpenSocks :
          a < b /\ sent[a] = {} /\ sent[b] = {"mcast", "bcast"}

Returned == Discovering /\ cpc \in {"done", "scan", "bn_done"}

\* C20: after discover() has returned no callback runs and found_zones and
\* first_response do not change.
C20_ResultFinal ==
    /\ [][Returned =>
            /\ found_zones' = found_zones
            /\ first_response' = first_response
            /\ cbTotal' = cbTotal]_vars
    /\ [](Returned => wpc \notin {"callback", "callback2"})

\* discover() has returned while the worker holds an accepted response that
\* has not reached the stop test yet.
C20_Witness == Returned /\ is_alive /\ wpc \in {"lock", "check"} /\ zone # 0

====
